---- MODULE Spec2Model ----
(***************************************************************************)
(* Model of PersistentShell (src/python版/main.py): one interactive        *)
(* "adb shell" subprocess per session, a background reader thread that     *)
(* drains its stdout into a queue, and the two-tier synchronous call.      *)
(* The caller's thread (mpc) and the reader thread (rpc) interleave at     *)
(* every access to the shared fields _async_alive and async_process.       *)
(***************************************************************************)
EXTENDS Integers, Sequences, FiniteSets, TLC

\* ---- bounds of the model ----
MaxProcs == 2          \* interactive subprocesses spawned over a run
MaxLines == 2          \* stdout lines emitted by all subprocesses together

ProcIds == 1..MaxProcs
None == 0              \* Python's None (no handle / no value)

Cmds == {"ls", "id"}
Timeouts == {5, 15}
DefaultTimeout == 15   \* execute_sync(self, command, timeout=15)
Outs == {"", "a"}
Errs == {"", "e"}

VARIABLES
  async_process,   \* self.async_process: None or a subprocess id
  async_alive,     \* self._async_alive
  output_queue,    \* self.output_queue (FIFO of lines)
  procState,       \* per subprocess: "unspawned", "running", "terminating", "exited"
  pipe,            \* per subprocess: stdout lines written and not yet read
  nemit,           \* per subprocess: number of lines it has written
  rpc,             \* position of the reader thread
  rproc,           \* subprocess whose stdout the reader is blocked on
  mpc,             \* position of the caller's thread
  call,            \* the current (or last finished) public call
  closed,          \* close() was called and no spawn has succeeded since
  appended,        \* history: lines put on the queue, in order
  delivered        \* history: lines returned by get_async_output_line, in order

vars == <<async_process, async_alive, output_queue, procState, pipe, nemit,
          rpc, rproc, mpc, call, closed, appended, delivered>>

session == <<async_process, async_alive, output_queue, procState>>

\* ---- the external subprocesses ----

\* Popen.poll() is None: the subprocess has not exited yet
PollIsNone(p) == procState[p] \in {"running", "terminating"}

Spawned == {p \in ProcIds : procState[p] # "unspawned"}
NextProc == Cardinality(Spawned) + 1
RECURSIVE SumEmit(_)
SumEmit(S) == IF S = {} THEN 0
              ELSE LET p == CHOOSE q \in S : TRUE IN nemit[p] + SumEmit(S \ {p})

\* the subprocess writes one more line to its stdout
ProcEmit(p) ==
  /\ procState[p] \in {"running", "terminating"}
  /\ SumEmit(ProcIds) < MaxLines
  /\ nemit' = [nemit EXCEPT ![p] = @ + 1]
  /\ pipe' = [pipe EXCEPT ![p] = Append(@, <<p, nemit[p] + 1>>)]
  /\ UNCHANGED <<async_process, async_alive, output_queue, procState,
                 rpc, rproc, mpc, call, closed, appended, delivered>>

\* the subprocess exits (by itself, or after terminate())
ProcExit(p) ==
  /\ procState[p] \in {"running", "terminating"}
  /\ procState' = [procState EXCEPT ![p] = "exited"]
  /\ UNCHANGED <<async_process, async_alive, output_queue, pipe, nemit,
                 rpc, rproc, mpc, call, closed, appended, delivered>>

\* ---- the call record ----
NoOutcome == [kind |-> "none", rc |-> 0, stdout |-> "", stderr |-> ""]

NoLine == <<>>          \* get_async_output_line's None

NoCall == [op |-> "none", cmd |-> "", timeout |-> 0, done |-> FALSE,
           ok |-> FALSE, line |-> NoLine, out |-> "", err |-> "",
           wasDead |-> FALSE, wasClosed |-> FALSE, wasEmpty |-> FALSE,
           repeat |-> FALSE,
           spawns |-> <<>>, wrote |-> "none", wroteTo |-> None,
           t1 |-> NoOutcome, t2 |-> NoOutcome, invocations |-> <<>>]

\* ---- construction ----

\* _poll_async_output: the reader thread is started only for a live session
PollAsyncOutputStarts(alive, proc) == alive /\ proc # None

\* __init__: _start_async_session() then _poll_async_output()
Init ==
  \E ok \in BOOLEAN :
    /\ async_process = IF ok THEN 1 ELSE None
    /\ async_alive = ok
    /\ output_queue = <<>>
    /\ procState = [p \in ProcIds |-> IF ok /\ p = 1 THEN "running" ELSE "unspawned"]
    /\ pipe = [p \in ProcIds |-> <<>>]
    /\ nemit = [p \in ProcIds |-> 0]
    /\ rpc = IF PollAsyncOutputStarts(ok, IF ok THEN 1 ELSE None)
               THEN "loop" ELSE "none"
    /\ rproc = None
    /\ mpc = "idle"
    /\ call = NoCall
    /\ closed = FALSE
    /\ appended = <<>>
    /\ delivered = <<>>

\* ---- the reader thread (_poll_async_output.reader) ----

\* while self._async_alive ...: first conjunct of the loop condition
ReaderCheckAlive ==
  /\ rpc = "loop"
  /\ rpc' = IF async_alive THEN "poll" ELSE "set_dead"
  /\ UNCHANGED <<async_process, async_alive, output_queue, procState, pipe,
                 nemit, rproc, mpc, call, closed, appended, delivered>>

\* ... and self.async_process.poll() is None: evaluated outside the try,
\* so a handle released by close() raises AttributeError out of the thread
ReaderCheckPoll ==
  /\ rpc = "poll"
  /\ rpc' = IF async_process = None THEN "crashed"
            ELSE IF PollIsNone(async_process) THEN "readline"
            ELSE "set_dead"
  /\ UNCHANGED <<async_process, async_alive, output_queue, procState, pipe,
                 nemit, rproc, mpc, call, closed, appended, delivered>>

\* self.async_process.stdout.readline() is entered: the handle is read again,
\* inside the try (a released handle is caught and breaks the loop)
ReaderEnterReadline ==
  /\ rpc = "readline"
  /\ IF async_process = None
       THEN rpc' = "set_dead" /\ rproc' = None
       ELSE rpc' = "blocked" /\ rproc' = async_process
  /\ UNCHANGED <<async_process, async_alive, output_queue, procState, pipe,
                 nemit, mpc, call, closed, appended, delivered>>

\* readline() returns a line: if line: self.output_queue.put(line)
ReaderGetLine ==
  /\ rpc = "blocked"
  /\ pipe[rproc] # <<>>
  /\ output_queue' = Append(output_queue, Head(pipe[rproc]))
  /\ appended' = Append(appended, Head(pipe[rproc]))
  /\ pipe' = [pipe EXCEPT ![rproc] = Tail(@)]
  /\ rpc' = "loop"
  /\ rproc' = None
  /\ UNCHANGED <<async_process, async_alive, procState, nemit, mpc, call,
                 closed, delivered>>

\* readline() returns '' at end of file: nothing is queued
ReaderGetEOF ==
  /\ rpc = "blocked"
  /\ pipe[rproc] = <<>>
  /\ procState[rproc] = "exited"
  /\ rpc' = "loop"
  /\ rproc' = None
  /\ UNCHANGED <<async_process, async_alive, output_queue, procState, pipe,
                 nemit, mpc, call, closed, appended, delivered>>

\* readline() raises while decoding the bytes it read (text mode): the
\* data is consumed, nothing is queued, except: break
ReaderReadError ==
  /\ rpc = "blocked"
  /\ pipe[rproc] # <<>>
  /\ pipe' = [pipe EXCEPT ![rproc] = Tail(@)]
  /\ rpc' = "set_dead"
  /\ rproc' = None
  /\ UNCHANGED <<async_process, async_alive, output_queue, procState,
                 nemit, mpc, call, closed, appended, delivered>>

\* after the loop: self._async_alive = False, and the thread ends
ReaderSetDead ==
  /\ rpc = "set_dead"
  /\ async_alive' = FALSE
  /\ rpc' = "done"
  /\ UNCHANGED <<async_process, output_queue, procState, pipe, nemit, rproc,
                 mpc, call, closed, appended, delivered>>

ReaderStep ==
  \/ ReaderCheckAlive
  \/ ReaderCheckPoll
  \/ ReaderEnterReadline
  \/ ReaderGetLine
  \/ ReaderGetEOF
  \/ ReaderReadError
  \/ ReaderSetDead

\* ---- execute_async ----

\* the session needs a respawn: the condition of execute_async's if
SessionDead ==
  \/ ~async_alive
  \/ async_process = None
  \/ ~PollIsNone(async_process)

\* _start_async_session: Popen succeeds (ok) or raises; the handle is
\* assigned without looking at the one it replaces
StartAsyncSession(ok) ==
  IF ok
    THEN /\ async_process' = NextProc
         /\ procState' = [procState EXCEPT ![NextProc] = "running"]
         /\ async_alive' = TRUE
    ELSE /\ async_process' = None
         /\ async_alive' = FALSE
         /\ UNCHANGED procState

\* execute_async, up to and including the call of _start_async_session
ExecuteAsyncBegin(cmd, ok) ==
  /\ mpc = "idle"
  /\ IF SessionDead
       THEN /\ ok => NextProc <= MaxProcs
            /\ StartAsyncSession(ok)
            /\ closed' = (closed /\ ~ok)
            /\ call' = [NoCall EXCEPT !.op = "async", !.cmd = cmd,
                          !.wasDead = TRUE, !.wasClosed = closed,
                          !.spawns = <<ok>>]
            /\ mpc' = "ea_check"
       ELSE /\ call' = [NoCall EXCEPT !.op = "async", !.cmd = cmd]
            /\ mpc' = "ea_write"
            /\ UNCHANGED <<async_process, async_alive, procState, closed>>
  /\ UNCHANGED <<output_queue, pipe, nemit, rpc, rproc, appended, delivered>>

\* variant: the flag is not looked at after the respawn
ExecuteAsyncCheck_NoReturn ==
  /\ mpc = "ea_check"
  /\ mpc' = "ea_write"
  /\ UNCHANGED <<async_process, async_alive, output_queue, procState, pipe,
                 nemit, rpc, rproc, call, closed, appended, delivered>>

\* after _start_async_session: if not self._async_alive: return False
ExecuteAsyncCheck ==
  /\ mpc = "ea_check"
  /\ IF ~async_alive
       THEN /\ call' = [call EXCEPT !.done = TRUE, !.ok = FALSE]
            /\ mpc' = "idle"
       ELSE /\ mpc' = "ea_write"
            /\ UNCHANGED call
  /\ UNCHANGED <<async_process, async_alive, output_queue, procState, pipe,
                 nemit, rpc, rproc, closed, appended, delivered>>

\* stdin.write/flush succeeds while the subprocess holds the pipe open
WriteSucceeds(p) == p # None /\ PollIsNone(p)

\* variant: the except branch reports success
ExecuteAsyncWrite_ReportsTrue ==
  /\ mpc = "ea_write"
  /\ IF WriteSucceeds(async_process)
       THEN /\ call' = [call EXCEPT !.done = TRUE, !.ok = TRUE,
                          !.wrote = "ok", !.wroteTo = async_process]
            /\ UNCHANGED async_alive
       ELSE /\ call' = [call EXCEPT !.done = TRUE, !.ok = TRUE,
                          !.wrote = "failed", !.wroteTo = async_process]
            /\ async_alive' = FALSE
  /\ mpc' = "idle"
  /\ UNCHANGED <<async_process, output_queue, procState, pipe, nemit, rpc,
                 rproc, closed, appended, delivered>>

\* the try block of execute_async: write and flush, or except: flag False
ExecuteAsyncWrite ==
  /\ mpc = "ea_write"
  /\ IF WriteSucceeds(async_process)
       THEN /\ call' = [call EXCEPT !.done = TRUE, !.ok = TRUE,
                          !.wrote = "ok", !.wroteTo = async_process]
            /\ UNCHANGED async_alive
       ELSE /\ call' = [call EXCEPT !.done = TRUE, !.ok = FALSE,
                          !.wrote = "failed", !.wroteTo = async_process]
            /\ async_alive' = FALSE
  /\ mpc' = "idle"
  /\ UNCHANGED <<async_process, output_queue, procState, pipe, nemit, rpc,
                 rproc, closed, appended, delivered>>

\* ---- get_async_output_line ----

\* variant: the newest line is taken instead of the oldest
GetAsyncOutputLine_LIFO ==
  /\ mpc = "idle"
  /\ IF output_queue = <<>>
       THEN /\ call' = [NoCall EXCEPT !.op = "poll", !.done = TRUE,
                          !.line = NoLine, !.wasEmpty = TRUE]
            /\ UNCHANGED <<output_queue, delivered>>
       ELSE /\ call' = [NoCall EXCEPT !.op = "poll", !.done = TRUE,
                          !.line = output_queue[Len(output_queue)]]
            /\ output_queue' = SubSeq(output_queue, 1, Len(output_queue) - 1)
            /\ delivered' = Append(delivered, output_queue[Len(output_queue)])
  /\ UNCHANGED <<async_process, async_alive, procState, pipe, nemit, rpc,
                 rproc, mpc, closed, appended>>

\* output_queue.get_nowait(), queue.Empty -> None
GetAsyncOutputLine ==
  /\ mpc = "idle"
  /\ IF output_queue = <<>>
       THEN /\ call' = [NoCall EXCEPT !.op = "poll", !.done = TRUE,
                          !.line = NoLine, !.wasEmpty = TRUE]
            /\ UNCHANGED <<output_queue, delivered>>
       ELSE /\ call' = [NoCall EXCEPT !.op = "poll", !.done = TRUE,
                          !.line = Head(output_queue)]
            /\ output_queue' = Tail(output_queue)
            /\ delivered' = Append(delivered, Head(output_queue))
  /\ UNCHANGED <<async_process, async_alive, procState, pipe, nemit, rpc,
                 rproc, mpc, closed, appended>>

\* ---- close ----

\* Popen.terminate(): a running subprocess is asked to stop; an error on an
\* exited one is swallowed
Terminate(p) ==
  [procState EXCEPT ![p] = IF @ = "running" THEN "terminating" ELSE @]

\* variant: the handle is kept after terminate()
Close_KeepsHandle ==
  /\ mpc = "idle"
  /\ async_alive' = FALSE
  /\ IF async_process # None
       THEN /\ procState' = Terminate(async_process)
            /\ UNCHANGED async_process
       ELSE UNCHANGED <<procState, async_process>>
  /\ closed' = TRUE
  /\ call' = [NoCall EXCEPT !.op = "close", !.done = TRUE,
                !.wasClosed = closed, !.repeat = (call.op = "close")]
  /\ UNCHANGED <<output_queue, pipe, nemit, rpc, rproc, mpc, appended,
                 delivered>>

\* close(): flag False, terminate() with errors ignored, handle released
Close ==
  /\ mpc = "idle"
  /\ async_alive' = FALSE
  /\ IF async_process # None
       THEN /\ procState' = Terminate(async_process)
            /\ async_process' = None
       ELSE UNCHANGED <<procState, async_process>>
  /\ closed' = TRUE
  /\ call' = [NoCall EXCEPT !.op = "close", !.done = TRUE,
                !.wasClosed = closed, !.repeat = (call.op = "close")]
  /\ UNCHANGED <<output_queue, pipe, nemit, rpc, rproc, mpc, appended,
                 delivered>>

\* ---- execute_sync ----

DeviceSerial == "SERIAL"

\* what one subprocess.run(...) can do: exit with a status and captured
\* text, exceed the timeout, or fail to start
Outcomes ==
  [kind : {"exit"}, rc : {0, 1}, stdout : Outs, stderr : Errs]
    \cup {[kind |-> "timeout", rc |-> 0, stdout |-> "", stderr |-> ""],
          [kind |-> "error", rc |-> 0, stdout |-> "", stderr |-> "no adb"]}

\* one outcome of each kind, for calls made while the session is running
OutcomeKinds ==
  {o \in Outcomes : o.kind = "exit" => (o.stdout = "a" /\ o.stderr = "e")}

ExecCmd(cmd) == <<"adb", "-s", DeviceSerial, "exec-out", cmd>>
ShellCmd(cmd) == <<"adb", "-s", DeviceSerial, "shell", cmd>>

\* the message returned as stderr when the second attempt times out
TimeoutMsg(timeout) == "timeout " \o ToString(timeout) \o "s"

\* variant: an empty stdout is taken as a failure of attempt 1
Tier1Returns_NeedsOutput(o) == o.kind = "exit" /\ o.rc = 0 /\ o.stdout # ""

\* attempt 1 returns only on a zero exit status
Tier1Returns(o) == o.kind = "exit" /\ o.rc = 0

\* variant: a timeout of attempt 2 returns two empty texts
Tier2Result_SilentTimeout(o, timeout) ==
  IF o.kind = "exit" THEN <<o.stdout, o.stderr>>
  ELSE IF o.kind = "timeout" THEN <<"", "">>
  ELSE <<"", o.stderr>>

\* the (stdout, stderr) pair attempt 2 returns
Tier2Result(o, timeout) ==
  IF o.kind = "exit" THEN <<o.stdout, o.stderr>>
  ELSE IF o.kind = "timeout" THEN <<"", TimeoutMsg(timeout)>>
  ELSE <<"", o.stderr>>

\* variant: a failure to start attempt 1 marks the interactive session dead
ExecuteSyncTier1_MarksDead(cmd, timeout, o) ==
  /\ mpc = "idle"
  /\ IF Tier1Returns(o)
       THEN /\ call' = [NoCall EXCEPT !.op = "sync", !.cmd = cmd,
                          !.timeout = timeout, !.t1 = o, !.done = TRUE,
                          !.out = o.stdout, !.err = o.stderr,
                          !.invocations = <<[argv |-> ExecCmd(cmd),
                                             timeout |-> timeout]>>]
            /\ mpc' = "idle"
       ELSE /\ call' = [NoCall EXCEPT !.op = "sync", !.cmd = cmd,
                          !.timeout = timeout, !.t1 = o,
                          !.invocations = <<[argv |-> ExecCmd(cmd),
                                             timeout |-> timeout]>>]
            /\ mpc' = "es_tier2"
  /\ async_alive' = (async_alive /\ o.kind # "error")
  /\ UNCHANGED <<async_process, output_queue, procState, pipe,
                 nemit, rpc, rproc, closed, appended, delivered>>

\* attempt 1: adb exec-out
ExecuteSyncTier1(cmd, timeout, o) ==
  /\ mpc = "idle"
  /\ IF Tier1Returns(o)
       THEN /\ call' = [NoCall EXCEPT !.op = "sync", !.cmd = cmd,
                          !.timeout = timeout, !.t1 = o, !.done = TRUE,
                          !.out = o.stdout, !.err = o.stderr,
                          !.invocations = <<[argv |-> ExecCmd(cmd),
                                             timeout |-> timeout]>>]
            /\ mpc' = "idle"
       ELSE /\ call' = [NoCall EXCEPT !.op = "sync", !.cmd = cmd,
                          !.timeout = timeout, !.t1 = o,
                          !.invocations = <<[argv |-> ExecCmd(cmd),
                                             timeout |-> timeout]>>]
            /\ mpc' = "es_tier2"
  /\ UNCHANGED <<async_process, async_alive, output_queue, procState, pipe,
                 nemit, rpc, rproc, closed, appended, delivered>>

\* variant: an empty stdout of attempt 2 is filled with attempt 1's stdout
ExecuteSyncTier2_KeepsTier1(o) ==
  /\ mpc = "es_tier2"
  /\ call' = [call EXCEPT !.t2 = o, !.done = TRUE,
                !.out = IF Tier2Result(o, call.timeout)[1] = ""
                          THEN call.t1.stdout
                          ELSE Tier2Result(o, call.timeout)[1],
                !.err = Tier2Result(o, call.timeout)[2],
                !.invocations = Append(@, [argv |-> ShellCmd(call.cmd),
                                           timeout |-> call.timeout])]
  /\ mpc' = "idle"
  /\ UNCHANGED <<async_process, async_alive, output_queue, procState, pipe,
                 nemit, rpc, rproc, closed, appended, delivered>>

\* attempt 2: adb shell; what attempt 1 produced is not used
ExecuteSyncTier2(o) ==
  /\ mpc = "es_tier2"
  /\ call' = [call EXCEPT !.t2 = o, !.done = TRUE,
                !.out = Tier2Result(o, call.timeout)[1],
                !.err = Tier2Result(o, call.timeout)[2],
                !.invocations = Append(@, [argv |-> ShellCmd(call.cmd),
                                           timeout |-> call.timeout])]
  /\ mpc' = "idle"
  /\ UNCHANGED <<async_process, async_alive, output_queue, procState, pipe,
                 nemit, rpc, rproc, closed, appended, delivered>>

\* ---- the system ----

ExecuteAsync == \E cmd \in Cmds, ok \in BOOLEAN : ExecuteAsyncBegin(cmd, ok)
ExecuteSync == \E o \in OutcomeKinds : ExecuteSyncTier1("ls", DefaultTimeout, o)
ExecuteSyncFallback == \E o \in OutcomeKinds : ExecuteSyncTier2(o)
Emit == \E p \in ProcIds : ProcEmit(p)
Exit == \E p \in ProcIds : ProcExit(p)

Next ==
  \/ ExecuteAsync
  \/ ExecuteAsyncCheck
  \/ ExecuteAsyncWrite
  \/ GetAsyncOutputLine
  \/ Close
  \/ ExecuteSync
  \/ ExecuteSyncFallback
  \/ ReaderCheckAlive
  \/ ReaderCheckPoll
  \/ ReaderEnterReadline
  \/ ReaderGetLine
  \/ ReaderGetEOF
  \/ ReaderReadError
  \/ ReaderSetDead
  \/ Emit
  \/ Exit

Spec == Init /\ [][Next]_vars

\* the scheduler runs the reader thread and lets a started call finish; a
\* subprocess that was sent terminate() exits
TerminatingExit == \E p \in ProcIds : procState[p] = "terminating" /\ ProcExit(p)

FairSpec ==
  /\ Spec
  /\ WF_vars(ReaderStep)
  /\ WF_vars(ExecuteAsyncCheck)
  /\ WF_vars(ExecuteAsyncWrite)
  /\ WF_vars(ExecuteSyncFallback)
  /\ WF_vars(TerminatingExit)

\* execute_sync on its own, over all commands, timeouts and outcomes of the
\* two attempts; it reads and writes no field of the session
ExecuteSyncAny == \E cmd \in Cmds, timeout \in Timeouts, o \in Outcomes :
                    ExecuteSyncTier1(cmd, timeout, o)
ExecuteSyncFallbackAny == \E o \in Outcomes : ExecuteSyncTier2(o)

SyncNext ==
  \/ ExecuteSyncAny
  \/ ExecuteSyncFallbackAny

SyncSpec == Init /\ [][SyncNext]_vars

\* ---- AdbHelper: the one-shot invoker ----
\* Text captured from a process is a sequence of characters; the elements of
\* an argument vector are strings.

NoDevice == ""          \* device=None (any falsy value takes the same branch)

\* the stderr text returned when the adb binary is not found
NotFoundMsg == <<"a", "d", "b", " ", "n", "o", "t", " ", "f", "o", "u", "n", "d">>

\* a request is a str (one element in args) or a list of arguments
Requests ==
  {[kind |-> "str", args |-> <<"devices">>],
   [kind |-> "str", args |-> <<"connect host:5555">>],
   [kind |-> "list", args |-> <<"shell", "ls">>],
   [kind |-> "list", args |-> <<"push", "a", "b">>]}

\* full_cmd: 'adb', then -s device, then append (str) or extend (list)
BuildArgv(cmd, device) ==
  <<"adb">>
    \o (IF device # NoDevice THEN <<"-s", device>> ELSE <<>>)
    \o (IF cmd.kind = "str" THEN <<cmd.args[1]>> ELSE cmd.args)

\* what subprocess.run does with the argument vector: the binary is absent
\* (FileNotFoundError), or a process runs and ends with text and a status;
\* a status of -1 is a process ended by signal 1
RanOutcomes(outs, errs) ==
  [absent : {FALSE}, stdout : outs, stderr : errs, rc : {0, 1, -1}]

AbsentOutcome == [absent |-> TRUE, stdout |-> <<>>, stderr |-> <<>>, rc |-> 0]

\* the triple execute_command returns; check=False, so no status raises
ExecResult(env) ==
  IF env.absent THEN <<<<>>, NotFoundMsg, -1>>
  ELSE <<env.stdout, env.stderr, env.rc>>

ExecEnvs == RanOutcomes({<<>>, <<"o">>}, {<<>>, <<"e">>, NotFoundMsg})
              \cup {AbsentOutcome}

\* execute_command(cmd, device)
ExecuteCommand(cmd, device, env) ==
  /\ call' = [op |-> "execute_command", cmd |-> cmd, device |-> device,
              env |-> env, argv |-> BuildArgv(cmd, device),
              result |-> ExecResult(env)]
  /\ UNCHANGED <<async_process, async_alive, output_queue, procState, pipe,
                 nemit, rpc, rproc, mpc, closed, appended, delivered>>

ExecuteCommandAny ==
  \E cmd \in Requests, device \in {NoDevice, DeviceSerial}, env \in ExecEnvs :
    ExecuteCommand(cmd, device, env)

\* ---- connect_wifi.do_connect and connect_device ----

\* str.lower() on one character
LowerChar(c) ==
  CASE
       c = "A" -> "a"
    [] c = "B" -> "b"
    [] c = "C" -> "c"
    [] c = "D" -> "d"
    [] c = "E" -> "e"
    [] c = "F" -> "f"
    [] c = "G" -> "g"
    [] c = "H" -> "h"
    [] c = "I" -> "i"
    [] c = "J" -> "j"
    [] c = "K" -> "k"
    [] c = "L" -> "l"
    [] c = "M" -> "m"
    [] c = "N" -> "n"
    [] c = "O" -> "o"
    [] c = "P" -> "p"
    [] c = "Q" -> "q"
    [] c = "R" -> "r"
    [] c = "S" -> "s"
    [] c = "T" -> "t"
    [] c = "U" -> "u"
    [] c = "V" -> "v"
    [] c = "W" -> "w"
    [] c = "X" -> "x"
    [] c = "Y" -> "y"
    [] c = "Z" -> "z"
    [] OTHER -> c

\* str.lower()
Lower(s) == [i \in 1..Len(s) |-> LowerChar(s[i])]

\* sub in s
Contains(s, sub) ==
  \E i \in 0..(Len(s) - Len(sub)) : SubSeq(s, i + 1, i + Len(sub)) = sub

ConnectedMarker == <<"c", "o", "n", "n", "e", "c", "t", "e", "d">>

\* responses of "adb connect"
TxtConnected == <<"c", "o", "n", "n", "e", "c", "t", "e", "d", " ", "t", "o", " ", "h", "o", "s", "t", ":", "5", "5", "5", "5">>
TxtAlready == <<"a", "l", "r", "e", "a", "d", "y", " ", "c", "o", "n", "n", "e", "c", "t", "e", "d", " ", "t", "o", " ", "h", "o", "s", "t", ":", "5", "5", "5", "5">>
TxtCapital == <<"C", "o", "n", "n", "e", "c", "t", "e", "d">>
TxtFailed == <<"f", "a", "i", "l", "e", "d", " ", "t", "o", " ", "c", "o", "n", "n", "e", "c", "t", " ", "t", "o", " ", "h", "o", "s", "t", ":", "5", "5", "5", "5">>
TxtCannot == <<"c", "a", "n", "n", "o", "t", " ", "c", "o", "n", "n", "e", "c", "t">>
ConnectTexts == {<<>>, TxtConnected, TxtAlready, TxtCapital, TxtFailed, TxtCannot}

\* entry.get().strip(): empty, or an address
Addresses == {"", "host:5555", "1.2.3.4:5555"}

\* connect_device: the request handed to execute_command is one f-string
ConnectRequest(ip_port) == [kind |-> "str", args |-> <<"connect " \o ip_port>>]

\* variant: the exit status alone decides
ConnectSucceeds_IgnoresText(stdout, rc) == rc = 0

\* if rc == 0 and 'connected' in stdout.lower()
ConnectSucceeds(stdout, rc) == rc = 0 /\ Contains(Lower(stdout), ConnectedMarker)

ConnectEnvs == RanOutcomes(ConnectTexts, {<<>>, <<"e">>}) \cup {AbsentOutcome}

\* do_connect: an empty entry only warns; otherwise connect_device runs and
\* the dialog reports success or failure
DoConnect(ip_port, env) ==
  /\ IF ip_port = ""
       THEN call' = [op |-> "connect", address |-> ip_port,
                     attempted |-> FALSE, argv |-> <<>>,
                     stdout |-> <<>>, stderr |-> <<>>, rc |-> 0,
                     success |-> FALSE]
       ELSE call' = [op |-> "connect", address |-> ip_port,
                     attempted |-> TRUE,
                     argv |-> BuildArgv(ConnectRequest(ip_port), NoDevice),
                     stdout |-> ExecResult(env)[1],
                     stderr |-> ExecResult(env)[2],
                     rc |-> ExecResult(env)[3],
                     success |-> ConnectSucceeds(ExecResult(env)[1],
                                                 ExecResult(env)[3])]
  /\ UNCHANGED <<async_process, async_alive, output_queue, procState, pipe,
                 nemit, rpc, rproc, mpc, closed, appended, delivered>>

ConnectWifi == \E ip_port \in Addresses, env \in ConnectEnvs : DoConnect(ip_port, env)

\* ---- get_devices ----

MaxDevLines == 2       \* lines after the header in the output of "adb devices"

IsSpace(c) == c \in {" ", "\t", "\n", "\r"}

\* str.strip()
RECURSIVE LStrip(_)
LStrip(s) == IF s # <<>> /\ IsSpace(s[1]) THEN LStrip(Tail(s)) ELSE s

RECURSIVE RStrip(_)
RStrip(s) == IF s # <<>> /\ IsSpace(s[Len(s)])
               THEN RStrip(SubSeq(s, 1, Len(s) - 1)) ELSE s

Strip(s) == RStrip(LStrip(s))

\* str.split(sep) for a one-character separator: always at least one part
RECURSIVE Split(_, _)
Split(s, sep) ==
  IF \E i \in 1..Len(s) : s[i] = sep
    THEN LET i == CHOOSE k \in 1..Len(s) :
                    s[k] = sep /\ \A j \in 1..(k - 1) : s[j] # sep
         IN <<SubSeq(s, 1, i - 1)>> \o Split(SubSeq(s, i + 1, Len(s)), sep)
    ELSE <<s>>

\* '\n'.join(lines) followed by a final newline: the text adb prints
RECURSIVE JoinLines(_)
JoinLines(lines) ==
  IF lines = <<>> THEN <<>>
  ELSE lines[1] \o <<"\n">> \o JoinLines(Tail(lines))

DevHeader == <<"L", "i", "s", "t", " ", "o", "f", " ", "d", "e", "v", "i", "c", "e", "s", " ", "a", "t", "t", "a", "c", "h", "e", "d">>
DevMarker == <<"\t", "d", "e", "v", "i", "c", "e">>

LineReady == <<"A", "B", "C", "1", "2", "3", "\t", "d", "e", "v", "i", "c", "e">>
LineOffline == <<"D", "E", "F", "4", "5", "6", "\t", "o", "f", "f", "l", "i", "n", "e">>
LineUnauthorized == <<"G", "H", "I", "\t", "u", "n", "a", "u", "t", "h", "o", "r", "i", "z", "e", "d">>
LineBlank == <<>>
LineDevices == <<"J", "K", "L", "\t", "d", "e", "v", "i", "c", "e", "s">>
LineThreeFields == <<"M", "N", "O", "\t", "d", "e", "v", "i", "c", "e", "\t", "u", "s", "b">>
DevLines == {LineReady, LineOffline, LineUnauthorized, LineBlank, LineDevices,
             LineThreeFields}

RECURSIVE SeqsUpTo(_, _)
SeqsUpTo(S, n) ==
  IF n = 0 THEN {<<>>}
  ELSE SeqsUpTo(S, n - 1)
         \cup {Append(q, x) : q \in {r \in SeqsUpTo(S, n - 1) : Len(r) = n - 1},
                              x \in S}

\* the for loop over lines[1:]: a line passes the filter if it is not blank
\* and holds '\tdevice'; unpacking its split into (serial, state) raises
\* ValueError unless there are exactly two parts
RECURSIVE ParseDevices(_, _)
ParseDevices(lines, devices) ==
  IF lines = <<>> THEN [raised |-> FALSE, devices |-> devices]
  ELSE LET line == lines[1] IN
       IF Strip(line) # <<>> /\ Contains(line, DevMarker)
         THEN IF Len(Split(line, "\t")) # 2
                THEN [raised |-> TRUE, devices |-> <<>>]
                ELSE ParseDevices(Tail(lines),
                        Append(devices, <<Split(line, "\t")[1],
                                          Split(line, "\t")[2]>>))
         ELSE ParseDevices(Tail(lines), devices)

\* get_devices() on the triple execute_command('devices') returned
DevicesOf(result) ==
  IF result[3] = 0
    THEN ParseDevices(Tail(Split(Strip(result[1]), "\n")), <<>>)
    ELSE [raised |-> FALSE, devices |-> <<>>]

GetDevices(lines, rc, absent) ==
  LET env == IF absent THEN AbsentOutcome
             ELSE [absent |-> FALSE,
                   stdout |-> JoinLines(<<DevHeader>> \o lines),
                   stderr |-> <<>>, rc |-> rc]
      parsed == DevicesOf(ExecResult(env))
  IN /\ call' = [op |-> "get_devices", lines |-> lines, env |-> env,
                 argv |-> BuildArgv([kind |-> "str", args |-> <<"devices">>],
                                    NoDevice),
                 raised |-> parsed.raised, devices |-> parsed.devices]
     /\ UNCHANGED <<async_process, async_alive, output_queue, procState, pipe,
                    nemit, rpc, rproc, mpc, closed, appended, delivered>>

GetDevicesAny ==
  \E lines \in SeqsUpTo(DevLines, MaxDevLines), rc \in {0, 1},
     absent \in BOOLEAN : GetDevices(lines, rc, absent)

\* ---- unescape_ls_filename ----

MaxNameLen == 4        \* characters in a raw listing name
NameChars == {"a", "\\", " ", "/"}

\* name.rstrip('/'): every trailing '/' is removed
RECURSIVE RStripSlash(_)
RStripSlash(s) == IF s # <<>> /\ s[Len(s)] = "/"
                    THEN RStripSlash(SubSeq(s, 1, Len(s) - 1)) ELSE s

\* raw.replace(r'\ ', ' '): left to right, without overlap
RECURSIVE ReplaceEscapedSpace(_)
ReplaceEscapedSpace(s) ==
  IF s = <<>> THEN <<>>
  ELSE IF Len(s) >= 2 /\ s[1] = "\\" /\ s[2] = " "
    THEN <<" ">> \o ReplaceEscapedSpace(SubSeq(s, 3, Len(s)))
  ELSE <<s[1]>> \o ReplaceEscapedSpace(Tail(s))

UnescapeLsFilename(name) ==
  IF name = <<>> THEN name
  ELSE LET is_dir == name[Len(name)] = "/"
           raw == RStripSlash(name)
           unescaped == ReplaceEscapedSpace(raw)
       IN IF is_dir THEN unescaped \o <<"/">> ELSE unescaped

Unescape(name) ==
  /\ call' = [op |-> "unescape", name |-> name,
              result |-> UnescapeLsFilename(name)]
  /\ UNCHANGED <<async_process, async_alive, output_queue, procState, pipe,
                 nemit, rpc, rproc, mpc, closed, appended, delivered>>

UnescapeAny == \E name \in SeqsUpTo(NameChars, MaxNameLen) : Unescape(name)

\* the invoker and the connect dialog on their own
InvokerNext ==
  \/ ExecuteCommandAny
  \/ ConnectWifi

InvokerSpec == Init /\ [][InvokerNext]_vars

\* the two parsers on their own
ParserNext ==
  \/ GetDevicesAny
  \/ UnescapeAny

ParserSpec == Init /\ [][ParserNext]_vars

\* ---- properties ----

Running == {p \in ProcIds : procState[p] = "running"}
ReaderActive == rpc \in {"loop", "poll", "readline", "blocked"}

\* C1: at most one interactive subprocess of the session is running and
\* un-terminated at any time (a replaced subprocess has exited or was
\* terminated before the replacement).
C1_AtMostOneSubprocess == Cardinality(Running) <= 1

\* C2: while the session's subprocess is running and the session is not
\* closed, a reader thread is reading its stdout into the queue.
C2_ReaderForEverySubprocess ==
  (async_process # None /\ procState[async_process] = "running" /\ ~closed)
    => ReaderActive

\* C3: a zero exit status of attempt 1 ends execute_sync with attempt 1's
\* (stdout, stderr), attempt 2 not started, also for empty stdout.
C3_Tier1ZeroExitIsFinal ==
  (call.op = "sync" /\ call.t1.kind = "exit" /\ call.t1.rc = 0)
    => /\ call.done
       /\ mpc # "es_tier2"
       /\ call.out = call.t1.stdout
       /\ call.err = call.t1.stderr
       /\ call.t2 = NoOutcome
       /\ call.invocations =
            <<[argv |-> <<"adb", "-s", DeviceSerial, "exec-out", call.cmd>>,
               timeout |-> call.timeout]>>

C3_Witness ==
  /\ call.op = "sync" /\ call.done
  /\ call.t1.kind = "exit" /\ call.t1.rc = 0 /\ call.t1.stdout = ""
  /\ call.out = ""

\* C4: when attempt 1 exits non-zero, times out or fails to start, attempt 2
\* is invoked exactly once with the same command and timeout, and the
\* returned pair is attempt 2's alone, with nothing of attempt 1 in it.
C4_FallbackState ==
  /\ (call.op = "sync" /\ ~(call.t1.kind = "exit" /\ call.t1.rc = 0))
       => \/ mpc = "es_tier2" /\ ~call.done /\ Len(call.invocations) = 1
          \/ mpc # "es_tier2" /\ call.done /\ call.t2.kind # "none"
  /\ (call.op = "sync" /\ call.t2.kind # "none")
       => /\ call.done
          /\ ~(call.t1.kind = "exit" /\ call.t1.rc = 0)
          /\ call.invocations =
               <<[argv |-> <<"adb", "-s", DeviceSerial, "exec-out", call.cmd>>,
                  timeout |-> call.timeout],
                 [argv |-> <<"adb", "-s", DeviceSerial, "shell", call.cmd>>,
                  timeout |-> call.timeout]>>
          /\ call.t2.kind = "exit"
               => (call.out = call.t2.stdout /\ call.err = call.t2.stderr)
          /\ call.t2.kind # "exit" => call.out = ""

C4_FallbackStep ==
  (mpc = "es_tier2" /\ mpc' # "es_tier2")
    => /\ mpc' = "idle" /\ call'.done
       /\ call'.cmd = call.cmd /\ call'.timeout = call.timeout
       /\ Len(call'.invocations) = 2
       /\ call'.t2.kind # "none"
       /\ call'.t2.kind = "exit"
            => <<call'.out, call'.err>> = <<call'.t2.stdout, call'.t2.stderr>>

C4_FallbackToTier2 == []C4_FallbackState /\ [][C4_FallbackStep]_vars

C4_Witness ==
  /\ call.op = "sync" /\ call.done
  /\ call.t1.kind = "exit" /\ call.t1.rc = 1 /\ call.t1.stdout = "a"
  /\ call.t2.kind = "exit" /\ call.t2.stdout = "" /\ call.out = ""
  /\ Len(call.invocations) = 2

\* C5: an execute_async call made on a closed session makes exactly one
\* respawn attempt; if it fails the call returns False, nothing is written
\* and the session stays dead.
C5_OneRespawnAfterClose ==
  (call.op = "async" /\ call.wasClosed)
    => /\ call.wasDead
       /\ Len(call.spawns) = 1
       /\ ~call.spawns[1]
            => /\ call.wrote = "none"
               /\ call.done => ~call.ok
               /\ ~call.done => mpc = "ea_check"
               /\ async_process = None /\ ~async_alive /\ closed

C5_Witness ==
  /\ call.op = "async" /\ call.wasClosed /\ call.done
  /\ call.spawns = <<FALSE>> /\ ~call.ok

\* C6 as claimed: on a dead session execute_async returns False only if the
\* respawn fails, and True if the respawn succeeds.
C6_FalseOnlyIfRespawnFails ==
  (call.op = "async" /\ call.wasDead /\ call.done)
    => (call.ok <=> call.spawns[1])

\* C6 as amended: on a dead session execute_async attempts the respawn
\* before any write; a failed respawn returns False without writing; True is
\* returned only after a successful respawn and a successful write to the
\* subprocess now held by the session.
C6_RespawnBeforeWrite ==
  (call.op = "async" /\ call.wasDead)
    => /\ Len(call.spawns) = 1
       /\ call.wrote # "none" => call.spawns[1]
       /\ (call.done /\ ~call.spawns[1]) => (~call.ok /\ call.wrote = "none")
       /\ (call.done /\ call.ok)
            => /\ call.spawns[1]
               /\ call.wrote = "ok"
               /\ call.wroteTo # None
               /\ call.wroteTo = async_process
       /\ (call.done /\ call.wrote = "failed") => ~call.ok

C6_Witness ==
  /\ call.op = "async" /\ call.wasDead /\ call.done /\ call.ok
  /\ call.spawns = <<TRUE>>

\* C7: the lines returned by get_async_output_line are, in order and without
\* repetition, a prefix of the lines the reader appended; on an empty queue
\* the call returns None at once.
IsPrefix(s, t) == Len(s) <= Len(t) /\ \A i \in 1..Len(s) : s[i] = t[i]
NoRepeat(s) == \A i, j \in 1..Len(s) : i # j => s[i] # s[j]

C7_QueueFIFO ==
  /\ IsPrefix(delivered, appended)
  /\ NoRepeat(delivered)
  /\ appended = delivered \o output_queue
  /\ call.op = "poll"
       => /\ call.done
          /\ call.wasEmpty => call.line = NoLine
          /\ ~call.wasEmpty
               => (delivered # <<>> /\ call.line = delivered[Len(delivered)])
  /\ mpc = "idle" => ENABLED GetAsyncOutputLine

C7_Witness ==
  /\ Len(delivered) = 2
  /\ call.op = "poll" /\ call.wasEmpty /\ call.line = NoLine

\* C8: no step of execute_sync changes the interactive subprocess handle,
\* the liveness flag, the output queue or any subprocess.
C8_SyncLeavesSession ==
  [][(call' # call /\ call'.op = "sync") => UNCHANGED session]_vars

C8_Witness ==
  /\ call.op = "sync" /\ call.done /\ call.t2.kind = "timeout"
  /\ async_alive /\ async_process # None /\ output_queue # <<>>

\* C9: close() leaves the flag False and the handle released, with the
\* subprocess it held asked to terminate; a second close() right after the
\* first changes nothing.
C9_CloseState ==
  call.op = "close"
    => (call.done /\ ~async_alive /\ async_process = None /\ closed)

C9_CloseStep ==
  Close => /\ async_process # None => procState'[async_process] # "running"
           /\ call.op = "close" => UNCHANGED <<session, closed>>

C9_CloseIdempotent == []C9_CloseState /\ [][C9_CloseStep]_vars

C9_Witness ==
  /\ call.op = "close" /\ call.repeat
  /\ output_queue # <<>>
  /\ procState[1] = "terminating"

\* C10: once its subprocess has exited or the session was closed, the reader
\* thread ends, and never by an unhandled exception.
C10_ReaderTerminates ==
  /\ [](rpc # "crashed")
  /\ (rpc # "none" /\ procState[1] = "exited") ~> (rpc = "done")
  /\ (rpc # "none" /\ call.op = "close") ~> (rpc = "done")

\* C11: a connect attempt is reported as successful exactly when the exit
\* status is zero and the response text contains the confirmation marker
\* (in any letter case); zero with other text is a failure.
TextsWithMarker == {TxtConnected, TxtAlready, TxtCapital}

C11_ConnectSuccess ==
  (call.op = "connect" /\ call.attempted)
    => (call.success <=> (call.rc = 0 /\ call.stdout \in TextsWithMarker))

C11_Witness ==
  /\ call.op = "connect" /\ call.attempted
  /\ call.rc = 0 /\ call.stdout = TxtFailed /\ ~call.success

\* C15: execute_command returns (stdout, stderr, status) for every exit
\* status, and what it returns for an absent binary differs from everything
\* it can return for a process that ran and exited non-zero.
C15_NotFoundDistinct ==
  call.op = "execute_command"
    => /\ ~call.env.absent
            => call.result = <<call.env.stdout, call.env.stderr, call.env.rc>>
       /\ call.env.absent
            => \A o \in ExecEnvs :
                 (~o.absent /\ o.rc # 0)
                   => call.result # <<o.stdout, o.stderr, o.rc>>

\* C18: the argument vector is the tool name, then the -s pair for a given
\* device, then every argument of the request as an element of its own;
\* connect(address) passes "connect" and the address as two arguments.
C18_ArgumentVector ==
  /\ call.op = "execute_command"
       => call.argv = <<"adb">>
                        \o (IF call.device = NoDevice THEN <<>>
                            ELSE <<"-s", call.device>>)
                        \o call.cmd.args
  /\ (call.op = "connect" /\ call.attempted)
       => call.argv = <<"adb", "connect", call.address>>

\* C12: after the header, list_devices returns, in input order, one
\* (serial, state) entry for every line whose state token is exactly
\* "device" and nothing for any other line, and it never raises.
RECURSIVE ReadyEntries(_)
ReadyEntries(lines) ==
  IF lines = <<>> THEN <<>>
  ELSE (IF lines[1] = LineReady
          THEN <<<<<<"A", "B", "C", "1", "2", "3">>, <<"d", "e", "v", "i", "c", "e">>>>>>
        ELSE IF lines[1] = LineThreeFields
          THEN <<<<<<"M", "N", "O">>, <<"d", "e", "v", "i", "c", "e">>>>>>
        ELSE <<>>)
       \o ReadyEntries(Tail(lines))

C12_ListDevices ==
  (call.op = "get_devices" /\ ~call.env.absent /\ call.env.rc = 0)
    => (~call.raised /\ call.devices = ReadyEntries(call.lines))

\* C13: unescape equals the reference transform on every raw name: one
\* trailing '/' is set aside, every backslash-space pair of the rest becomes
\* a space, the '/' is put back; all other characters stay, the empty name
\* too.
RECURSIVE ReferenceReplace(_)
ReferenceReplace(s) ==
  IF Len(s) < 2 THEN s
  ELSE IF SubSeq(s, 1, 2) = <<"\\", " ">>
    THEN <<" ">> \o ReferenceReplace(SubSeq(s, 3, Len(s)))
  ELSE <<s[1]>> \o ReferenceReplace(SubSeq(s, 2, Len(s)))

ReferenceUnescape(name) ==
  IF name # <<>> /\ name[Len(name)] = "/"
    THEN ReferenceReplace(SubSeq(name, 1, Len(name) - 1)) \o <<"/">>
    ELSE ReferenceReplace(name)

C13_UnescapeReference ==
  call.op = "unescape" => call.result = ReferenceUnescape(call.name)

C16_NoLineDropped ==
  (async_process = 1 /\ procState[1] = "exited" /\ rpc = "done")
    => /\ pipe[1] = <<>>
       /\ \A k \in 1..nemit[1] :
            \E i \in 1..Len(appended) : appended[i] = <<1, k>>

\* C17: after execute_async has respawned the subprocess and returned True,
\* the flag is True as long as that subprocess runs (no close() before the
\* call and no later call, so no failed write and no close() after it): the
\* reader of the earlier subprocess does not reset it.
C17_FlagStaysTrue ==
  (call.op = "async" /\ call.done /\ call.ok /\ call.wasDead
     /\ ~call.wasClosed
     /\ async_process # None /\ procState[async_process] = "running")
    => async_alive
====
